---- MODULE Spec2Model ----
(***************************************************************************)
(* Model of sphinxext/mantiddoc/doctest.py: the 'build-finished' handler   *)
(* doctest_to_xunit, the doctest log parser DocTestOutputParser and its    *)
(* XUnit emitter as_xunit.                                                 *)
(*                                                                         *)
(* A line of the log is a record [k, n, name, path].  The field k is the   *)
(* shape of the text of the line, as far as the prefixes and the regular   *)
(* expressions of the module can tell lines apart:                         *)
(*   "Document"    'Document: bar/FooDoc\n'      (path = <<"bar","FooDoc">>)*)
(*   "Underline"   '--------------------\n'                                *)
(*   "Passed"      '<n> items passed all tests:\n'                         *)
(*   "TestsIn"     '   <n> tests in <name>\n'                              *)
(*   "Divider"     '**********************\n'                              *)
(*   "Stars"       '***Test Failed*** 2 failures.\n'   (fewer than 5 '*')  *)
(*   "Loc"         'File "bar/FooDoc.rst", line 111, in <name>\n'          *)
(*   "HadFailures" '<n> items had failures:\n'                             *)
(*   "Summary"     'Doctest summary\n'                                     *)
(*   "Blank"       '\n'                                                    *)
(*   "Text"        any other line, <name> tells two such lines apart       *)
(* Every line carries its terminator, as lines read from a file do.        *)
(***************************************************************************)
EXTENDS Integers, Sequences, FiniteSets, TLC

\* ------------------------------------------------------------------------
\* Bounds of the model
MaxDocs == 3
MaxEmits == 2

\* ------------------------------------------------------------------------
\* Optional values: Python's None and a present value
None == <<>>
Some(x) == <<x>>

\* ------------------------------------------------------------------------
\* Lines
Line(k, n, name, path) == [k |-> k, n |-> n, name |-> name, path |-> path]
DocLine(path) == Line("Document", 0, "", path)
Underline == Line("Underline", 0, "", <<>>)
PassedLine(n) == Line("Passed", n, "", <<>>)
TestsInLine(n, name) == Line("TestsIn", n, name, <<>>)
Divider == Line("Divider", 0, "", <<>>)
StarsLine == Line("Stars", 0, "", <<>>)
LocLine(name) == Line("Loc", 0, name, <<>>)
HadFailuresLine(n) == Line("HadFailures", n, "", <<>>)
SummaryLine == Line("Summary", 0, "", <<>>)
BlankLine == Line("Blank", 0, "", <<>>)
Text(name) == Line("Text", 0, name, <<>>)

\* Module constants
DOCTEST_OUTPUT == "output.txt"
XUNIT_OUTPUT == "doctests.xml"
TEST_FAILURE_TYPE == "UsageFailure"

\* line.startswith(DOCTEST_DOCUMENT_BEGIN)
DOCTEST_DOCUMENT_BEGIN(line) == line.k = "Document"
\* line.startswith(DOCTEST_SUMMARY_TITLE)
DOCTEST_SUMMARY_TITLE(line) == line.k = "Summary"
\* line.startswith("-")
StartsWithDash(line) == line.k = "Underline"
\* line.startswith("*")
StartsWithStar(line) == line.k \in {"Divider", "Stars"}
\* line.startswith("*****")
StartsWithFiveStars(line) == line.k = "Divider"
\* line != "": a line read from a file holds at least its terminator
NotEmptyString(line) == line.k \in {"Document", "Underline", "Passed", "TestsIn", "Divider", "Stars", "Loc", "HadFailures", "Summary", "Blank", "Text"}
\* the regular expressions: does the line match
ALLPASS_TEST_NAMES_RE(line) == line.k = "TestsIn"
FAILURE_LOC_INFO_RE(line) == line.k = "Loc"
NUMBER_PASSED_RE(line) == line.k = "Passed"
NUMBER_FAILURES_RE(line) == line.k = "HadFailures"

\* ------------------------------------------------------------------------
\* TestCase and TestSuite
TestCase(classname, name, failure_descr) == [classname |-> classname, name |-> name, failure_descr |-> failure_descr]

passed(case) == case.failure_descr = None

failed(case) == ~passed(case)

TestSuite(name, cases, package) == [name |-> name, testcases |-> cases, package |-> package]

\* ntests that counts one case too many
ntests_off_by_one(suite) == Len(suite.testcases) + 1

ntests(suite) == Len(suite.testcases)

\* sum_failure that counts the cases that passed
RECURSIVE reduce_sum_passed(_, _)
reduce_sum_passed(cases, fails) ==
    IF cases = <<>> THEN fails
    ELSE reduce_sum_passed(Tail(cases), IF passed(Head(cases)) THEN fails + 1 ELSE fails)

RECURSIVE reduce_sum_failure(_, _)
reduce_sum_failure(cases, fails) ==
    IF cases = <<>> THEN fails
    ELSE reduce_sum_failure(Tail(cases), IF failed(Head(cases)) THEN fails + 1 ELSE fails)

nfailures(suite) == reduce_sum_failure(suite.testcases, 0)

npassed(suite) == ntests(suite) - nfailures(suite)

\* ------------------------------------------------------------------------
\* Results of the parsing functions: a list of cases, or a raised exception
Return(cases) == [ok |-> TRUE, cases |-> cases, type |-> "", msg |-> "", quoted |-> None]
Raise(type, msg, quoted) == [ok |-> FALSE, cases |-> <<>>, type |-> type, msg |-> msg, quoted |-> quoted]

\* first_line.replace(DOCTEST_DOCUMENT_BEGIN, "").strip(): the name after the marker
extract_fullname(first_line) ==
    IF ~DOCTEST_DOCUMENT_BEGIN(first_line)
    THEN [ok |-> FALSE, fullname |-> <<>>]
    ELSE [ok |-> TRUE, fullname |-> first_line.path]

\* fullname.split("/")[-1] if "/" in fullname else fullname
ClassName(fullname) == IF Len(fullname) > 1 THEN fullname[Len(fullname)] ELSE fullname[1]

\* for idx in range(ntests): cases.append(TestCase(classname, name, None))
RepeatCase(case, count) == [i \in 1..count |-> case]

Min(a, b) == IF a < b THEN a ELSE b

RECURSIVE parse_success_loop(_, _)
parse_success_loop(classname, lines) ==
    IF lines = <<>> THEN Return(<<>>)
    ELSE LET line == Head(lines)
         IN  IF ~ALLPASS_TEST_NAMES_RE(line)
             THEN Raise("ValueError", "Unexpected information line in all pass case", Some(line))
             ELSE LET rest == parse_success_loop(classname, Tail(lines))
                  IN  IF rest.ok
                      THEN Return(RepeatCase(TestCase(classname, Some(line.name), None), line.n) \o rest.cases)
                      ELSE rest

parse_success(fullname, result_txt) ==
    IF ~NUMBER_PASSED_RE(result_txt[1])
    THEN Raise("ValueError", "All passed line incorrect", Some(result_txt[1]))
    ELSE LET classname == ClassName(fullname)
             nitems == result_txt[1].n
         IN  parse_success_loop(classname, SubSeq(result_txt, 2, Min(1 + nitems, Len(result_txt))))

\* __parse_failures with the transcript of a block not emptied at its divider
RECURSIVE parse_failures_keeps_text(_, _, _, _, _)
parse_failures_keeps_text(classname, lines, cases, failure_txt, testname) ==
    IF lines = <<>> THEN cases
    ELSE LET line == Head(lines)
         IN  IF StartsWithFiveStars(line)
             THEN IF Len(failure_txt) > 0
                  THEN parse_failures_keeps_text(classname, Tail(lines), Append(cases, TestCase(classname, testname, Some(failure_txt))), failure_txt, testname)
                  ELSE parse_failures_keeps_text(classname, Tail(lines), cases, failure_txt, testname)
             ELSE LET name == IF Len(failure_txt) = 0 /\ FAILURE_LOC_INFO_RE(line) THEN Some(line.name) ELSE testname
                  IN  IF NUMBER_FAILURES_RE(line)
                      THEN cases
                      ELSE parse_failures_keeps_text(classname, Tail(lines), cases, Append(failure_txt, line), name)

RECURSIVE parse_failures_loop(_, _, _, _, _)
parse_failures_loop(classname, lines, cases, failure_txt, testname) ==
    IF lines = <<>> THEN cases
    ELSE LET line == Head(lines)
         IN  IF StartsWithFiveStars(line)
             THEN IF Len(failure_txt) > 0
                  THEN parse_failures_loop(classname, Tail(lines), Append(cases, TestCase(classname, testname, Some(failure_txt))), <<>>, testname)
                  ELSE parse_failures_loop(classname, Tail(lines), cases, failure_txt, testname)
             ELSE LET name == IF Len(failure_txt) = 0 /\ FAILURE_LOC_INFO_RE(line) THEN Some(line.name) ELSE testname
                  IN  IF NUMBER_FAILURES_RE(line)
                      THEN cases
                      ELSE parse_failures_loop(classname, Tail(lines), cases, Append(failure_txt, line), name)

parse_failures(fullname, result_txt) ==
    Return(parse_failures_loop(ClassName(fullname), result_txt, <<>>, <<>>, None))

parse_document(result_txt) ==
    LET fullname == extract_fullname(result_txt[1])
    IN  IF ~fullname.ok
        THEN Raise("ValueError", "First line of output text should be a line beginning Document:", None)
        ELSE IF Len(result_txt) < 2
        THEN Raise("IndexError", "list index out of range", None)
        ELSE IF ~StartsWithDash(result_txt[2])
        THEN Raise("ValueError", "Invalid second line of output. Expected a title underline.", Some(result_txt[2]))
        ELSE LET body == SubSeq(result_txt, 3, Len(result_txt))
             IN  IF Len(body) < 1
                 THEN Raise("IndexError", "list index out of range", None)
                 ELSE IF StartsWithStar(body[1])
                 THEN parse_failures(fullname.fullname, body)
                 ELSE parse_success(fullname.fullname, body)

\* ------------------------------------------------------------------------
\* The logs the runs are tried on.  A log is a header followed by up to MaxDocs
\* document segments; a segment is a "Document:" line followed by a tail.  The
\* documents of one log have different names.  At most one segment of a log has
\* one of the rarer tails.
DocNames == << <<"a", "B">>, <<"bar", "FooDoc">>, <<"Home">>, <<"x", "y", "Z">>, <<"api", "Index">> >>

BlockEx1 == <<LocLine("Ex1"), Text("Failed example"), Text("Got")>>
BlockEx2 == <<LocLine("Ex2"), Text("Failed example")>>
BlockDefault == <<LocLine("default"), Text("Got")>>
BlockNoLoc == <<Text("Traceback")>>

CommonTails ==
    { <<Underline, PassedLine(1), TestsInLine(2, "default")>>,
      <<Underline, PassedLine(2), TestsInLine(2, "default"), TestsInLine(1, "ExForFoo"), Text("3 tests in 2 items."), BlankLine>>,
      <<Underline, Divider>> \o BlockEx2 \o <<Divider>> \o BlockEx1 \o <<Divider, HadFailuresLine(2), Text("1 of 1 in Ex1")>> }

RareTails ==
    { \* a passing document followed by the summary of the run
      <<Underline, PassedLine(1), TestsInLine(1, "Ex3"), SummaryLine, Text("===")>>,
      \* fewer block lines than announced
      <<Underline, PassedLine(2), TestsInLine(2, "default")>>,
      \* a block line that is no block line
      <<Underline, PassedLine(1), Text("1 tests in 1 items.")>>,
      \* no "items passed" line
      <<Underline, Text("1 tests in 1 items.")>>,
      \* a blank line before the body
      <<Underline, BlankLine, PassedLine(1), TestsInLine(2, "default")>>,
      \* no underline
      <<Text("Got"), PassedLine(1), TestsInLine(2, "default")>>,
      \* nothing but the "Document:" line, and nothing after the underline
      <<>>,
      <<Underline>>,
      \* failing documents: the last block ended by a divider, by the
      \* "items had failures" line, by the end of the segment
      <<Underline, Divider>> \o BlockEx1 \o <<Divider, HadFailuresLine(1)>>,
      <<Underline, Divider>> \o BlockEx1 \o <<HadFailuresLine(1)>>,
      <<Underline, Divider>> \o BlockEx1,
      \* a block without a location line, after a named block and first
      <<Underline, Divider>> \o BlockEx1 \o <<Divider>> \o BlockNoLoc \o <<Divider, HadFailuresLine(2)>>,
      <<Underline, Divider>> \o BlockNoLoc \o <<Divider, HadFailuresLine(1)>>,
      \* some pass, some fail
      <<Underline, Divider>> \o BlockDefault \o <<Divider>> \o BlockEx1 \o <<PassedLine(1), TestsInLine(1, "Ex3"), Divider, HadFailuresLine(2)>>,
      \* a blank line inside a failure transcript
      <<Underline, Divider, LocLine("Ex1"), BlankLine, Text("Got"), Divider, HadFailuresLine(1)>>,
      \* a body that starts with stars that are no divider
      <<Underline, StarsLine, Text("Got")>> }

Headers == { <<>>, <<Text("Running Sphinx")>>, <<Text("Running Sphinx"), SummaryLine, Text("===")>> }

DocName(i, first) == DocNames[((i + first - 2) % Len(DocNames)) + 1]

RECURSIVE Concat(_)
Concat(seqs) == IF seqs = <<>> THEN <<>> ELSE Head(seqs) \o Concat(Tail(seqs))

\* The choices of m tails, at most one of them rare
TailChoices(m) ==
    [1..m -> CommonTails]
    \cup { [common EXCEPT ![i] = rare] : common \in [1..m -> CommonTails], i \in 1..m, rare \in RareTails }

Logs ==
    UNION { { header \o Concat([i \in 1..m |-> <<DocLine(DocName(i, first))>> \o tails[i]]) :
                header \in Headers, first \in 1..2, tails \in TailChoices(m) } : m \in 0..MaxDocs }

\* ------------------------------------------------------------------------
\* The file system and the Sphinx application
Dirs == {"build/doctest", "build/html", "out"}
FileNames == {"output.txt", "doctests.xml", "doctest.xml"}
\* os.path.join(dir, name)
Join(dir, name) == <<dir, name>>
Paths == {Join(d, f) : d \in Dirs, f \in FileNames}

Apps ==
    { [builder |-> "doctest", outdir |-> "build/doctest"],
      [builder |-> "doctest", outdir |-> "out"],
      [builder |-> "html", outdir |-> "build/html"],
      [builder |-> "html", outdir |-> "build/doctest"] }

NoFile == [exists |-> FALSE, lines |-> <<>>, xml |-> <<>>]
TextFile(lines) == [exists |-> TRUE, lines |-> lines, xml |-> <<>>]
XmlFile(xml) == [exists |-> TRUE, lines |-> <<>>, xml |-> xml]

\* A piece of a serialized report, in the order ElementTree writes them
Node(tag, name, classname, tests, failures, failure) ==
    [tag |-> tag, name |-> name, classname |-> classname, tests |-> tests, failures |-> failures, failure |-> failure]
OldReport == <<Node("old", None, "", <<>>, <<>>, None)>>

\* str(n): the decimal digits of n
RECURSIVE str(_)
str(n) == IF n < 10 THEN <<n>> ELSE Append(str(n \div 10), n % 10)

\* The element tree as_xunit builds, as the sequence of pieces tree.write emits
CaseNode(testcase) ==
    Node("testcase", testcase.name, testcase.classname, <<>>, <<>>,
         IF failed(testcase) THEN Some([type |-> TEST_FAILURE_TYPE, text |-> testcase.failure_descr[1]]) ELSE None)

XunitTree(suite) ==
    <<Node("?xml", None, "", <<>>, <<>>, None),
      Node("testsuite", Some(suite.name), "", str(ntests(suite)), str(nfailures(suite)), None)>>
    \o [i \in 1..Len(suite.testcases) |-> CaseNode(suite.testcases[i])]
    \o <<Node("/testsuite", None, "", <<>>, <<>>, None)>>

\* An attribute that is None cannot be serialized: ElementTree raises TypeError
Serializable(node) == node.tag = "testcase" => node.name # None

\* ------------------------------------------------------------------------
\* State
VARIABLES
    app,            \* the Sphinx application: builder name and output directory
    fs,             \* the files, by path
    opened,         \* the files opened so far: <<path, mode>>
    pc,             \* where the handler is
    lineno,         \* the next line of the log the loop of __parse reads
    in_doc,         \* __parse: in_doc
    document_txt,   \* __parse: document_txt
    cases,          \* __parse: cases
    testsuite,      \* self.testsuite: None until __init__ has assigned it
    tree,           \* as_xunit: the pieces to write
    raised,         \* the exception that left the handler, if any
    emissions       \* the calls of as_xunit so far: the suite before and after, what was written

vars == <<app, fs, opened, pc, lineno, in_doc, document_txt, cases, testsuite, tree, raised, emissions>>

\* the test of doctest_to_xunit turned round
builder_is_not_doctest(a) == a.builder # "doctest"

\* app.builder.name != "doctest": return
builder_is_doctest(a) == a.builder = "doctest"

doctest_file == Join(app.outdir, DOCTEST_OUTPUT)
xunit_file == Join(app.outdir, XUNIT_OUTPUT)
result_file == fs[doctest_file].lines

\* The state when the handler is called, the log being one of logs
InitWith(logs) ==
    /\ app \in Apps
    /\ \E log \in logs :
         fs = [p \in Paths |->
                 IF p[2] = "output.txt" THEN TextFile(log)
                 ELSE IF p = <<"build/doctest", "doctests.xml">> THEN XmlFile(OldReport)
                 ELSE NoFile]
    /\ opened = {}
    /\ pc = "start"
    /\ lineno = 1
    /\ in_doc = FALSE
    /\ document_txt = <<>>
    /\ cases = <<>>
    /\ testsuite = None
    /\ tree = <<>>
    /\ raised = None
    /\ emissions = <<>>

Init == InitWith(Logs)

\* doctest_to_xunit: any builder but doctest, return
NotDoctest ==
    /\ pc = "start"
    /\ ~builder_is_doctest(app)
    /\ pc' = "done"
    /\ UNCHANGED <<app, fs, opened, lineno, in_doc, document_txt, cases, testsuite, tree, raised, emissions>>

\* doctest_to_xunit, DocTestOutputParser.__init__: open the log, enter __parse
OpenLog ==
    /\ pc = "start"
    /\ builder_is_doctest(app)
    /\ opened' = opened \cup {<<doctest_file, "r">>}
    /\ IF fs[doctest_file].exists
       THEN /\ pc' = "parse"
            /\ raised' = raised
       ELSE /\ pc' = "raised"
            /\ raised' = Some(Raise("IOError", "No such file or directory", None))
    /\ in_doc' = FALSE
    /\ document_txt' = <<>>
    /\ cases' = <<>>
    /\ lineno' = 1
    /\ UNCHANGED <<app, fs, testsuite, tree, emissions>>

\* __parse, one turn of the loop on a line that starts a document
ParseDocumentBegin ==
    /\ pc = "parse"
    /\ lineno <= Len(result_file)
    /\ LET line == result_file[lineno]
           previous == IF document_txt # <<>> THEN parse_document(document_txt) ELSE Return(<<>>)
       IN  /\ DOCTEST_DOCUMENT_BEGIN(line)
           /\ IF previous.ok
              THEN /\ cases' = cases \o previous.cases
                   /\ document_txt' = <<line>>
                   /\ in_doc' = TRUE
                   /\ lineno' = lineno + 1
                   /\ UNCHANGED <<pc, raised>>
              ELSE /\ pc' = "raised"
                   /\ raised' = Some(previous)
                   /\ UNCHANGED <<cases, document_txt, in_doc, lineno>>
    /\ UNCHANGED <<app, fs, opened, testsuite, tree, emissions>>

\* __parse, one turn of the loop on any other line
ParseLine ==
    /\ pc = "parse"
    /\ lineno <= Len(result_file)
    /\ LET line == result_file[lineno]
           still_in_doc == IF DOCTEST_SUMMARY_TITLE(line) THEN FALSE ELSE in_doc
       IN  /\ ~DOCTEST_DOCUMENT_BEGIN(line)
           /\ in_doc' = still_in_doc
           /\ document_txt' = IF still_in_doc /\ NotEmptyString(line) THEN Append(document_txt, line) ELSE document_txt
    /\ lineno' = lineno + 1
    /\ UNCHANGED <<app, fs, opened, pc, cases, testsuite, tree, raised, emissions>>

\* __parse at the end of the file: return the suite, __init__ stores it
ParseReturn ==
    /\ pc = "parse"
    /\ lineno > Len(result_file)
    /\ testsuite' = Some(TestSuite("doctests", cases, "doctests"))
    /\ pc' = "parsed"
    /\ UNCHANGED <<app, fs, opened, lineno, in_doc, document_txt, cases, tree, raised, emissions>>

\* as_xunit that takes the cases out of the suite as it writes them
as_xunit_drains_cases ==
    /\ tree' = XunitTree(testsuite[1])
    /\ opened' = opened \cup {<<xunit_file, "w">>}
    /\ fs' = [fs EXCEPT ![xunit_file] = XmlFile(<<>>)]
    /\ pc' = "write"
    /\ testsuite' = Some(TestSuite(testsuite[1].name, <<>>, testsuite[1].package))
    /\ emissions' = Append(emissions, [before |-> testsuite, after |-> testsuite, content |-> <<>>, complete |-> FALSE])
    /\ UNCHANGED <<app, lineno, in_doc, document_txt, cases, raised>>

\* as_xunit: build the tree; tree.write opens the report for writing
as_xunit ==
    /\ tree' = XunitTree(testsuite[1])
    /\ opened' = opened \cup {<<xunit_file, "w">>}
    /\ fs' = [fs EXCEPT ![xunit_file] = XmlFile(<<>>)]
    /\ pc' = "write"
    /\ emissions' = Append(emissions, [before |-> testsuite, after |-> testsuite, content |-> <<>>, complete |-> FALSE])
    /\ UNCHANGED <<app, lineno, in_doc, document_txt, cases, testsuite, raised>>

\* doctest_to_xunit: doctests.as_xunit(xunit_file)
AsXunitOpen ==
    /\ pc = "parsed"
    /\ as_xunit

\* as_xunit called once more on the same parser
AsXunitAgain ==
    /\ pc = "done"
    /\ testsuite # None
    /\ Len(emissions) < MaxEmits
    /\ as_xunit

\* tree.write: serialize the next piece
AsXunitWrite ==
    /\ pc = "write"
    /\ Len(fs[xunit_file].xml) < Len(tree)
    /\ LET node == tree[Len(fs[xunit_file].xml) + 1]
       IN  IF Serializable(node)
           THEN /\ fs' = [fs EXCEPT ![xunit_file].xml = Append(@, node)]
                /\ UNCHANGED <<pc, raised>>
           ELSE /\ pc' = "raised"
                /\ raised' = Some(Raise("TypeError", "cannot serialize None", None))
                /\ fs' = fs
    /\ UNCHANGED <<app, opened, lineno, in_doc, document_txt, cases, testsuite, tree, emissions>>

\* tree.write: a write fails
AsXunitIOError ==
    /\ pc = "write"
    /\ Len(fs[xunit_file].xml) < Len(tree)
    /\ pc' = "raised"
    /\ raised' = Some(Raise("IOError", "write failed", None))
    /\ UNCHANGED <<app, fs, opened, lineno, in_doc, document_txt, cases, testsuite, tree, emissions>>

\* tree.write: everything is written, close the file and return
AsXunitClose ==
    /\ pc = "write"
    /\ Len(fs[xunit_file].xml) = Len(tree)
    /\ pc' = "done"
    /\ emissions' = [emissions EXCEPT ![Len(emissions)] =
                        [before |-> @.before, after |-> testsuite, content |-> fs[xunit_file].xml, complete |-> TRUE]]
    /\ UNCHANGED <<app, fs, opened, lineno, in_doc, document_txt, cases, testsuite, tree, raised>>

Next ==
    \/ NotDoctest
    \/ OpenLog
    \/ ParseDocumentBegin
    \/ ParseLine
    \/ ParseReturn
    \/ AsXunitOpen
    \/ AsXunitWrite
    \/ AsXunitIOError
    \/ AsXunitClose

Spec == Init /\ [][Next]_vars

\* The handler followed by further calls of as_xunit, on the logs without header
ReemitLogs ==
    UNION { { Concat([i \in 1..m |-> <<DocLine(DocName(i, 1))>> \o tails[i]]) : tails \in TailChoices(m) } : m \in 0..MaxDocs }

InitReemit == InitWith(ReemitLogs)

NextReemit == Next \/ AsXunitAgain

SpecReemit == InitReemit /\ [][NextReemit]_vars

\* ------------------------------------------------------------------------
\* What the properties below speak of
Log == fs[doctest_file].lines
Report == fs[xunit_file].xml
IsDoctest == app.builder = "doctest"
\* the report is written and closed
Emitted == IsDoctest /\ pc = "done"
RootNode == Report[2]
ReportCases == SubSeq(Report, 3, Len(Report) - 1)

RECURSIVE Sum(_)
Sum(numbers) == IF numbers = <<>> THEN 0 ELSE Head(numbers) + Sum(Tail(numbers))

Range(seq) == {seq[i] : i \in DOMAIN seq}

\* The document segments of a log as the specification describes them: a
\* "Document:" line opens a segment, a later "Document:" line closes it and
\* opens the next, the first "Doctest summary" line ends the collection, blank
\* lines are skipped.
RECURSIVE SegmentsFrom(_, _)
SegmentsFrom(lines, segments) ==
    IF lines = <<>> THEN segments
    ELSE LET line == Head(lines)
         IN  IF line.k = "Document" THEN SegmentsFrom(Tail(lines), Append(segments, <<line>>))
             ELSE IF line.k = "Summary" THEN segments
             ELSE IF line.k = "Blank" \/ segments = <<>> THEN SegmentsFrom(Tail(lines), segments)
             ELSE SegmentsFrom(Tail(lines), [segments EXCEPT ![Len(segments)] = Append(@, line)])

Segments(log) == SegmentsFrom(log, <<>>)

\* A passing segment: title, underline, "<N> items passed all tests:", N block lines
IsPassingSegment(seg) ==
    /\ Len(seg) >= 3
    /\ seg[2].k = "Underline"
    /\ seg[3].k = "Passed"
    /\ Len(seg) >= 3 + seg[3].n
    /\ \A i \in 1..seg[3].n : seg[3 + i].k = "TestsIn"

BlockCounts(seg) == [i \in 1..seg[3].n |-> seg[3 + i].n]

\* A failing segment: title, underline, a body that starts with a divider
IsFailingSegment(seg) ==
    /\ Len(seg) >= 3
    /\ seg[2].k = "Underline"
    /\ seg[3].k = "Divider"

\* The lines of a failing segment before its "<N> items had failures:" line
BeforeSummaryLine(seg) ==
    LET ends == {i \in DOMAIN seg : seg[i].k = "HadFailures"}
    IN  IF ends = {} THEN seg ELSE SubSeq(seg, 1, (CHOOSE i \in ends : \A j \in ends : i <= j) - 1)

\* The failure blocks of a failing segment: each starts on the line after a divider
FailureBlockStarts(seg) ==
    LET lines == BeforeSummaryLine(seg)
    IN  {i \in 4..Len(lines) : lines[i - 1].k = "Divider" /\ lines[i].k # "Divider"}

ScenarioLog == <<DocLine(<<"a", "B">>), Underline, PassedLine(1), TestsInLine(2, "default")>>

\* C1: a log of passing segments only gives a report whose tests attribute is
\* the sum of the counts of all block lines of all segments, the last segment
\* included, and whose failures attribute is 0; the scenario log gives two
\* passing cases of class B named default.
C1_PassingLogTotals ==
    (Emitted /\ \A seg \in Range(Segments(Log)) : IsPassingSegment(seg)) =>
        /\ RootNode.tests = str(Sum([i \in DOMAIN Segments(Log) |-> Sum(BlockCounts(Segments(Log)[i]))]))
        /\ RootNode.failures = str(0)
        /\ Log = ScenarioLog =>
              ReportCases = << Node("testcase", Some("default"), "B", <<>>, <<>>, None),
                               Node("testcase", Some("default"), "B", <<>>, <<>>, None) >>

\* C2: a log of failing segments only gives a report whose failures attribute
\* is the number of failure blocks of the log and whose tests attribute is the
\* same number: one case for each block, however the block ends.
C2_FailingLogTotals ==
    (Emitted /\ \A seg \in Range(Segments(Log)) : IsFailingSegment(seg)) =>
        /\ RootNode.failures = str(Sum([i \in DOMAIN Segments(Log) |-> Cardinality(FailureBlockStarts(Segments(Log)[i]))]))
        /\ RootNode.tests = RootNode.failures

\* C3: for a log that mixes passing and failing segments, the cases of the report are the cases of the segments of the log, one
\* segment after the other in the order of the log, each segment's cases in
\* the order __parse_document gives them.
C3_ReportInDocumentOrder ==
    (/\ Emitted
     /\ \E seg \in Range(Segments(Log)) : IsPassingSegment(seg)
     /\ \E seg \in Range(Segments(Log)) : IsFailingSegment(seg)
     /\ \A seg \in Range(Segments(Log)) : parse_document(seg).ok) =>
        ReportCases = Concat([i \in DOMAIN Segments(Log) |->
                          LET segcases == parse_document(Segments(Log)[i]).cases
                          IN  [j \in DOMAIN segcases |-> CaseNode(segcases[j])]])

\* The blocks of the body of a failing segment that a divider closes, in order:
\* the lines between two dividers, up to the "<N> items had failures:" line
RECURSIVE ClosedBlocks(_, _, _)
ClosedBlocks(lines, open, closed) ==
    IF lines = <<>> \/ Head(lines).k = "HadFailures" THEN closed
    ELSE IF Head(lines).k = "Divider"
    THEN ClosedBlocks(Tail(lines), <<>>, IF open = <<>> THEN closed ELSE Append(closed, open))
    ELSE ClosedBlocks(Tail(lines), Append(open, Head(lines)), closed)

\* A step of __parse that hands the failing segment collected so far to __parse_document
ParsesFailingSegment ==
    /\ pc = "parse"
    /\ lineno' = lineno + 1
    /\ DOCTEST_DOCUMENT_BEGIN(result_file[lineno])
    /\ IsFailingSegment(document_txt)

NewCases == SubSeq(cases', Len(cases) + 1, Len(cases'))
SegmentBlocks == ClosedBlocks(SubSeq(document_txt, 3, Len(document_txt)), <<>>, <<>>)
LastComponent(path) == path[Len(path)]

StructurallyValid(seg) ==
    /\ Len(seg) >= 3
    /\ seg[2].k = "Underline"
    /\ \/ seg[3].k \in {"Divider", "Stars"}
       \/ /\ seg[3].k = "Passed"
          /\ \A i \in 1..seg[3].n : 3 + i <= Len(seg) => seg[3 + i].k = "TestsIn"

\* C5: a run ends either with a suite and a report built from every segment of
\* the log, or with a format error, no suite and no report written; a log with
\* a structurally invalid segment ends the second way.
C5_AllOrNothing ==
    IsDoctest =>
        /\ pc = "done" =>
              /\ testsuite # None
              /\ \A seg \in Range(Segments(Log)) : StructurallyValid(seg)
        /\ (pc = "raised" /\ testsuite = None) =>
              /\ raised[1].type = "ValueError"
              /\ <<xunit_file, "w">> \notin opened

\* The position of the first "Doctest summary" line of a log, or past its end
FirstSummary(log) ==
    LET at == {i \in DOMAIN log : log[i].k = "Summary"}
    IN  IF at = {} THEN Len(log) + 1 ELSE CHOOSE i \in at : \A j \in at : i <= j

\* The "Document:" lines of a log, before its summary, whose next line is a
\* line of the segment that does not start with "-"
MissingUnderline(log) ==
    {i \in 1..(Len(log) - 1) :
        /\ i < FirstSummary(log)
        /\ log[i].k = "Document"
        /\ log[i + 1].k \notin {"Underline", "Blank", "Summary", "Document"}}

\* C6: the parse of a log with a segment whose line after the "Document:" line
\* does not start with "-" fails with a format error, wherever the segment is,
\* and when the segments before the first such segment are well formed the
\* error quotes that line.
C6_MissingUnderlineFails ==
    (IsDoctest /\ MissingUnderline(Log) # {}) =>
        LET first == CHOOSE i \in MissingUnderline(Log) : \A j \in MissingUnderline(Log) : i <= j
            before == Segments(SubSeq(Log, 1, first - 1))
        IN  /\ pc \notin {"parsed", "write", "done"}
            /\ testsuite = None
            /\ pc = "raised" =>
                  /\ raised[1].type = "ValueError"
                  /\ (\A seg \in Range(before) : IsPassingSegment(seg) \/ IsFailingSegment(seg)) =>
                        raised[1].quoted = Some(Log[first + 1])

\* C7: a log without a "Document:" line parses without error to a suite
\* without cases, and its report has tests="0", failures="0" and no testcase.
C7_NoDocumentNoCases ==
    (IsDoctest /\ \A i \in DOMAIN Log : Log[i].k # "Document") =>
        /\ pc = "raised" => raised[1].type = "IOError"
        /\ pc \in {"parsed", "write", "done"} => testsuite # None /\ testsuite[1].testcases = <<>>
        /\ pc = "done" =>
              /\ RootNode.tag = "testsuite"
              /\ RootNode.tests = <<0>>
              /\ RootNode.failures = <<0>>
              /\ \A i \in DOMAIN Report : Report[i].tag # "testcase"

\* C7 witness: the report of a log of header and summary lines only is written
C7_Witness ==
    /\ Emitted
    /\ Log = <<Text("Running Sphinx"), SummaryLine, Text("===")>>

\* What is at a path other than a log before the handler runs
Untouched(path) == IF path = <<"build/doctest", "doctests.xml">> THEN XmlFile(OldReport) ELSE NoFile

\* C8: for a builder other than doctest the handler opens no file and leaves
\* every file as it is; for the doctest builder it reads output.txt of the
\* output directory and nothing else, and writes doctests.xml of the same
\* directory and nothing else.
C8_HandlerFrame ==
    /\ \A path \in Paths : path[2] = "output.txt" => fs[path] = TextFile(Log)
    /\ ~IsDoctest =>
          /\ opened = {}
          /\ \A path \in Paths : path[2] # "output.txt" => fs[path] = Untouched(path)
    /\ IsDoctest =>
          /\ opened \subseteq { <<<<app.outdir, "output.txt">>, "r">>, <<<<app.outdir, "doctests.xml">>, "w">> }
          /\ \A path \in Paths \ {<<app.outdir, "doctests.xml">>} :
                path[2] # "output.txt" => fs[path] = Untouched(path)
          /\ pc # "start" => <<<<app.outdir, "output.txt">>, "r">> \in opened
          /\ pc \in {"write", "done"} => <<<<app.outdir, "doctests.xml">>, "w">> \in opened
          /\ pc = "done" => fs[<<app.outdir, "doctests.xml">>].exists

\* C8 witness: the handler has run to its end for the doctest builder
C8_Witness ==
    /\ Emitted
    /\ opened = { <<<<app.outdir, "output.txt">>, "r">>, <<<<app.outdir, "doctests.xml">>, "w">> }
    /\ fs[<<app.outdir, "doctests.xml">>] = XmlFile(tree)

FailedCases(testcases) == {i \in DOMAIN testcases : testcases[i].failure_descr # None}

\* C9: a case is passed iff it has no failure description, and failed
\* otherwise; the failure count of a suite is the number of its cases with a
\* failure description, its total the length of the case list, its passes the
\* difference; the tests and failures attributes of the report are these
\* numbers, and as many testcase elements have a failure child.
C9_CountsFromCases ==
    /\ \A i \in DOMAIN cases :
          /\ passed(cases[i]) <=> cases[i].failure_descr = None
          /\ failed(cases[i]) <=> cases[i].failure_descr # None
    /\ testsuite # None =>
          LET suite == testsuite[1]
              total == Len(suite.testcases)
              failures == Cardinality(FailedCases(suite.testcases))
          IN  /\ \A i \in DOMAIN suite.testcases : passed(suite.testcases[i]) <=> ~failed(suite.testcases[i])
              /\ ntests(suite) = total
              /\ nfailures(suite) = failures
              /\ npassed(suite) = total - failures
              /\ 0 <= nfailures(suite) /\ nfailures(suite) <= ntests(suite)
              /\ ntests(suite) = nfailures(suite) + npassed(suite)
              /\ (pc \in {"write", "done"} /\ Len(Report) >= 2) =>
                    /\ RootNode.tests = str(total)
                    /\ RootNode.failures = str(failures)
              /\ pc = "done" =>
                    /\ Len(ReportCases) = total
                    /\ \A i \in DOMAIN ReportCases : ReportCases[i].tag = "testcase"
                    /\ RootNode.failures = str(Cardinality({i \in DOMAIN ReportCases : ReportCases[i].failure # None}))

\* C9 witness: a report is written for a suite with passed and failed cases
C9_Witness ==
    /\ Emitted
    /\ \E i \in DOMAIN testsuite[1].testcases : passed(testsuite[1].testcases[i])
    /\ \E i \in DOMAIN testsuite[1].testcases : failed(testsuite[1].testcases[i])

\* C10: when the emission fails, the report path holds the complete new
\* report or what it held before the emission started.
C10_NoPartialReport ==
    (IsDoctest /\ pc = "raised" /\ testsuite # None) =>
        \/ fs[xunit_file] = Untouched(xunit_file)
        \/ fs[xunit_file] = XmlFile(XunitTree(testsuite[1]))

\* C11: every call of as_xunit on the same parser leaves the suite as it was,
\* and all the calls that complete write the same report.
C11_EmitTwiceSame ==
    \A i \in DOMAIN emissions :
        /\ emissions[i].before = testsuite
        /\ emissions[i].complete =>
              /\ emissions[i].after = emissions[i].before
              /\ emissions[i].content = XunitTree(emissions[i].before[1])
              /\ \A j \in DOMAIN emissions : emissions[j].complete => emissions[j].content = emissions[i].content

\* C11 witness: as_xunit has written twice the report of a suite with passed
\* and failed cases
C11_Witness ==
    /\ Len(emissions) = 2
    /\ emissions[1].complete /\ emissions[2].complete
    /\ \E i \in DOMAIN testsuite[1].testcases : passed(testsuite[1].testcases[i])
    /\ \E i \in DOMAIN testsuite[1].testcases : failed(testsuite[1].testcases[i])

\* The log cut just before its first "Doctest summary" line
CutBeforeSummary(log) == SubSeq(log, 1, FirstSummary(log) - 1)

\* A "Document:" line follows the first "Doctest summary" line of the log
DocumentAfterSummary(log) ==
    \E i \in DOMAIN log : i > FirstSummary(log) /\ log[i].k = "Document"

\* C12: when the parse of a log with a "Document:" line after its first
\* "Doctest summary" line returns, the cases are those of the segments of the
\* log cut just before that summary line, the segment open there included, and
\* no more.
C12_SummaryEndsCollection ==
    (/\ IsDoctest
     /\ pc \in {"parsed", "write", "done"}
     /\ DocumentAfterSummary(Log)
     /\ \A seg \in Range(Segments(CutBeforeSummary(Log))) : parse_document(seg).ok) =>
        testsuite[1].testcases =
            Concat([i \in DOMAIN Segments(CutBeforeSummary(Log)) |->
                       parse_document(Segments(CutBeforeSummary(Log))[i]).cases])

\* A step of __parse that hands the segment collected so far to
\* __parse_document, the body of the segment starting with an
\* "<N> items passed all tests:" line
ParsesSuccessSegment ==
    /\ pc = "parse"
    /\ lineno <= Len(result_file)
    /\ DOCTEST_DOCUMENT_BEGIN(result_file[lineno])
    /\ Len(document_txt) >= 3
    /\ document_txt[2].k = "Underline"
    /\ document_txt[3].k = "Passed"
    /\ (pc' # pc \/ lineno' # lineno)

\* The N lines after the "<N> items passed all tests:" line are there and are block lines
HasAllBlockLines(seg) ==
    /\ Len(seg) >= 3 + seg[3].n
    /\ \A i \in 1..seg[3].n : seg[3 + i].k = "TestsIn"

\* C13: a segment whose body starts with "<N> items passed all tests:" gives,
\* when N block lines follow, M passing cases named blockname for each of the N
\* lines in order, and a format error when fewer than N lines follow or one of
\* the next N lines is no block line.
C13_ExactlyNBlockLines ==
    [][ParsesSuccessSegment =>
          IF HasAllBlockLines(document_txt)
          THEN /\ pc' = "parse"
               /\ NewCases = Concat([i \in 1..document_txt[3].n |->
                                 RepeatCase(TestCase(LastComponent(document_txt[1].path),
                                                     Some(document_txt[3 + i].name), None),
                                            document_txt[3 + i].n)])
          ELSE /\ pc' = "raised"
               /\ raised'[1].type = "ValueError"]_vars

\* C14: in a failing segment handed to __parse_document, the case of a block
\* whose first line is a location line is named as that line says, and the
\* case of a block whose first line is no location line has no name, whatever
\* blocks come before it.
C14_NameFromOwnBlockOnly ==
    [][ParsesFailingSegment =>
          /\ Len(NewCases) = Len(SegmentBlocks)
          /\ \A i \in DOMAIN SegmentBlocks :
                NewCases[i].name = IF SegmentBlocks[i][1].k = "Loc"
                                   THEN Some(SegmentBlocks[i][1].name)
                                   ELSE None]_vars

\* The lines of a segment that are not blank
IsNotBlank(line) == line.k # "Blank"
WithoutBlankLines(seg) == SelectSeq(seg, IsNotBlank)

\* C15: the segment that __parse hands to __parse_document gives the cases, or
\* the error, of the same segment without its blank lines.
C15_BlankLinesSkipped ==
    (/\ pc = "parse"
     /\ lineno <= Len(result_file)
     /\ DOCTEST_DOCUMENT_BEGIN(result_file[lineno])
     /\ document_txt # <<>>) =>
        parse_document(document_txt) = parse_document(WithoutBlankLines(document_txt))

====
